---- MODULE Spec2Model ----
(***************************************************************************)
(* WaveBlocks: the storage layer (IOManager), the multi-Hagedorn           *)
(* simulation loop (SimulationLoopMultiHagedorn) and the time series they   *)
(* write, as a state machine.                                               *)
(*                                                                          *)
(* Python indices are zero-based and TLA+ sequences one-based: a shape      *)
(* (s0, s1, s2) is the sequence <<s0, s1, s2>> and axis a is its element     *)
(* a+1; slot k of a dataset is element k+1 of its data.                      *)
(***************************************************************************)
EXTENDS Integers, Sequences, FiniteSets, TLC

(***************************************************************************)
(* Bounds of the model.                                                     *)
(***************************************************************************)
\* largest configured number of time steps (parameters.nsteps)
MaxSteps == 3
\* largest number of completed calls on one simulation loop instance
MaxCalls == 3
\* largest block counter a store is grown to by create_block
MaxBlocks == 3
\* largest slot handed to must_resize
MaxSlot == 2
\* longest timegrid a lookup is tried on
MaxLen == 4

\* the names a result file can have; the first is the default target
DefaultFile == "simulation_results.hdf5"
Files == {DefaultFile, "other.hdf5"}

\* component counts of the potential, and numbers of initial value sets given
ComponentCounts == {1, 2}
InitialSetCounts == {0, 1, 2}
\* basis sizes K
BasisSizes == {1, 2}
\* the timesteps a timegrid holds, and the timesteps looked up in it
TimeValues == {0, 5, 10, 15}
LookupValues == TimeValues \cup {7}

VARIABLES
    disk,     \* the file system: file name -> persisted store
    iom,      \* the IOManager instance: its fields parameters and srf, and the
              \* plugin functions bound to it
    ret,      \* the last call on the IOManager: arguments, locals, outcome
    cfg,      \* the parameters object handed to the simulation loop
    loop,     \* the SimulationLoopMultiHagedorn instance
    pc,       \* the position of the running handler of the loop
    calls,    \* the calls on the loop that have returned or raised, in order
    quad,     \* the InhomogeneousQuadrature instance and the objects handed to it
    qret      \* the last call of each operation of the quadrature: outcome

vars == <<disk, iom, ret, cfg, loop, pc, calls, quad, qret>>

\* what the storage layer and the simulation loop leave alone
QuadVars == <<quad, qret>>

(***************************************************************************)
(* Values.                                                                  *)
(***************************************************************************)
\* The parameters of a run, as far as the loop and the storage layer read them.
Configs ==
    { c \in [ nsteps : 0..MaxSteps, saveAt : SUBSET (1..MaxSteps),
              ncomponents : ComponentCounts, nparams : InitialSetCounts,
              ncoeffs : InitialSetCounts, basis_size : BasisSizes ] :
        c.saveAt \subseteq 1..c.nsteps }

\* pickle.dumps / pickle.loads of one parameter value
Pickle(v) == <<"pickle", v>>
Unpickle(b) == b[2]

\* a file that does not exist
NoFile == [exists |-> FALSE, number_blocks |-> 0, blocks |-> {},
           params |-> <<>>, ds |-> <<>>]

\* the name of the group of block n: "datablock_" + str(n)
BlockName(n) == <<"datablock", n>>

\* create_file without the test for an existing target
LexistsNever(d, f) == FALSE

\* os.path.lexists(filename)
Lexists(d, f) == d[f].exists

\* f = hdf.File(filename); f.attrs["number_blocks"] = 0
NewFile == [exists |-> TRUE, number_blocks |-> 0, blocks |-> {},
            params |-> <<>>, ds |-> <<>>]

\* attrs[name] = blob on the attributes of a dataset
SetAttr(attrs, name, blob) ==
    [k \in DOMAIN attrs \cup {name} |-> IF k = name THEN blob ELSE attrs[k]]

\* for param, value in parameters: the pairs the parameters object yields
RECURSIVE ItemsOf(_, _)
ItemsOf(p, names) ==
    IF names = {} THEN <<>>
    ELSE LET k == CHOOSE k \in names : TRUE
         IN  <<<<k, p[k]>>>> \o ItemsOf(p, names \ {k})

\* the loop of save_simulation_parameters over the pairs:
\* paset.attrs[param] = pickle.dumps(value)
RECURSIVE StoreAttrs(_, _)
StoreAttrs(attrs, items) ==
    IF items = <<>> THEN attrs
    ELSE StoreAttrs(SetAttr(attrs, Head(items)[1], Pickle(Head(items)[2])),
                    Tail(items))

\* save_simulation_parameters: every (param, value) pair becomes an attribute
\* holding the pickled value
SaveSimulationParameters(s, p) ==
    [s EXCEPT !.params = StoreAttrs(<<>>, ItemsOf(p, DOMAIN p))]

\* create_block that forgets to count the new block
CreateBlockUncounted(s) ==
    [s EXCEPT !.blocks = @ \cup {BlockName(s.number_blocks)}]

\* create_block on a store whose group of that name does not exist yet
CreateBlockStore(s) ==
    [s EXCEPT !.blocks = @ \cup {BlockName(s.number_blocks)},
              !.number_blocks = @ + 1]

\* create_group raises when the name is taken
GroupTaken(s) == BlockName(s.number_blocks) \in s.blocks

\* load_file that skips the attribute of one name
LoadParametersButOne(s) ==
    [k \in DOMAIN s.params \ {"eps"} |-> Unpickle(s.params[k])]

\* the configuration load_file rebuilds from the attributes
LoadParameters(s) == [k \in DOMAIN s.params |-> Unpickle(s.params[k])]

\* ParameterProvider.compute_parameters(): the values derived from primary
\* inputs, here the number of time steps from the end time and the step size;
\* a configuration without these inputs gets nothing derived
ComputeParameters(p) ==
    IF {"T", "dt"} \subseteq DOMAIN p
      THEN SetAttr(p, "nsteps", p.T \div p.dt)
      ELSE p

\* the srf field: no handle yet, an open handle, a closed one
NoHandle == [file |-> "", state |-> "none"]
OpenHandle(f) == [file |-> f, state |-> "open"]

IsOpen == iom.srf.state = "open"
\* the store behind the handle
Srf == disk[iom.srf.file]

\* a numpy array of indices: its shape and its entries
NoResult == [shape |-> <<0>>, v |-> <<>>]

Ret(op, path, a, b, cur, res, exc) ==
    [op |-> op, path |-> path, a |-> a, b |-> b, cur_len |-> cur,
     result |-> res, exc |-> exc,
     again |-> (ret.op = op /\ ret.path = path /\ ret.a = a /\ ret.b = b)]

\* before any call
NoCall ==
    [op |-> "", path |-> "", a |-> 0, b |-> 0, cur_len |-> 0,
     result |-> NoResult, exc |-> "none", again |-> FALSE]

(***************************************************************************)
(* IOManager: files and blocks.                                             *)
(***************************************************************************)
\* create_file(parameters, filename)
CreateFile(p, f) ==
    /\ IF Lexists(disk, f)
         THEN /\ iom' = [iom EXCEPT !.parameters = <<p>>]
              /\ disk' = disk
              /\ ret' = Ret("create_file", f, 0, 0, 0, NoResult, "ValueError")
         ELSE /\ iom' = [iom EXCEPT !.parameters = <<p>>, !.srf = OpenHandle(f)]
              /\ disk' = [disk EXCEPT ![f] =
                             CreateBlockStore(SaveSimulationParameters(NewFile, p))]
              /\ ret' = Ret("create_file", f, 0, 0, 0, NoResult, "none")

\* load_file(filename)
LoadFile(f) ==
    /\ disk' = disk
    /\ IF Lexists(disk, f)
         THEN /\ iom' = [iom EXCEPT
                            !.parameters = <<ComputeParameters(LoadParameters(disk[f]))>>,
                            !.srf = OpenHandle(f)]
              /\ ret' = Ret("load_file", f, 0, 0, 0, NoResult, "none")
         ELSE /\ iom' = iom
              /\ ret' = Ret("load_file", f, 0, 0, 0, NoResult, "ValueError")

\* finalize() that flushes the file and leaves it open: srf.flush()
FinalizeFlushOnly ==
    /\ disk' = disk
    /\ iom' = iom
    /\ ret' = Ret("finalize", "", 0, 0, 0, NoResult,
                  IF iom.srf.state = "none" THEN "AttributeError" ELSE "none")

\* finalize(): srf.close(); without a handle the attribute access fails
Finalize ==
    /\ disk' = disk
    /\ IF iom.srf.state = "none"
         THEN /\ iom' = iom
              /\ ret' = Ret("finalize", "", 0, 0, 0, NoResult, "AttributeError")
         ELSE /\ iom' = [iom EXCEPT !.srf.state = "closed"]
              /\ ret' = Ret("finalize", "", 0, 0, 0, NoResult, "none")

\* create_block(): reads the counter, creates the group, increments the counter
CreateBlock ==
    /\ iom' = iom
    /\ IF iom.srf.state = "none"
         THEN /\ disk' = disk
              /\ ret' = Ret("create_block", "", 0, 0, 0, NoResult, "AttributeError")
         ELSE IF ~IsOpen \/ GroupTaken(Srf)
         THEN /\ disk' = disk
              /\ ret' = Ret("create_block", "", 0, 0, 0, NoResult, "ValueError")
         ELSE /\ Srf.number_blocks < MaxBlocks
              /\ disk' = [disk EXCEPT ![iom.srf.file] = CreateBlockStore(@)]
              /\ ret' = Ret("create_block", "", 0, 0, 0, NoResult, "none")

(***************************************************************************)
(* IOManager: operations bound from plugins on first use.                   *)
(***************************************************************************)
\* the attributes a caller asks an IOManager for
Keys == {"add_grid", "save_grid", "load_grid", "delete_grid",
         "add_wavepacket_inhomog", "save_coefficients_inhomog",
         "load_wavefunction", "save_norm", "flush", "filename"}

\* key.split("_")
Split(key) ==
    CASE key = "add_grid" -> <<"add", "grid">>
      [] key = "save_grid" -> <<"save", "grid">>
      [] key = "load_grid" -> <<"load", "grid">>
      [] key = "delete_grid" -> <<"delete", "grid">>
      [] key = "add_wavepacket_inhomog" -> <<"add", "wavepacket", "inhomog">>
      [] key = "save_coefficients_inhomog" -> <<"save", "coefficients", "inhomog">>
      [] key = "load_wavefunction" -> <<"load", "wavefunction">>
      [] key = "save_norm" -> <<"save", "norm">>
      [] OTHER -> <<key>>

\* the modules IOM_plugin_<x> that can be imported
PluginNames == {"grid", "wavepacket", "norm"}

\* plugin.__dict__: the functions the module IOM_plugin_<x> defines
PluginFunctions(x) ==
    CASE x = "grid" -> {"add_grid", "save_grid", "load_grid"}
      [] x = "wavepacket" -> {"add_wavepacket_inhomog", "save_coefficients_inhomog",
                              "save_parameters_inhomog"}
      [] x = "norm" -> {"save_norm", "load_norm"}
      [] OTHER -> {}

\* the attributes found without __getattr__: the methods of the class and
\* what is in the __dict__ of the instance
Methods == {"create_file", "load_file", "finalize", "create_block",
            "save_simulation_parameters", "must_resize", "find_timestep_index"}

\* __getattr__(key): called for an attribute that is not found otherwise
GetAttr(key) ==
    /\ key \notin Methods \cup iom.dict
    /\ disk' = disk
    /\ LET parts == Split(key)
       IN  IF Len(parts) < 2
             THEN /\ iom' = iom
                  /\ ret' = Ret("__getattr__", key, 0, 0, 0, NoResult, "IndexError")
           ELSE IF parts[2] \notin PluginNames
             THEN /\ iom' = iom
                  /\ ret' = Ret("__getattr__", key, 0, 0, 0, NoResult, "ImportError")
           ELSE /\ iom' = [iom EXCEPT !.dict = @ \cup PluginFunctions(parts[2])]
                /\ ret' = Ret("__getattr__", key, 0, 0, 0, NoResult,
                              IF key \in iom'.dict THEN "none" ELSE "KeyError")

(***************************************************************************)
(* IOManager: datasets, resizing and timestep lookup.                       *)
(***************************************************************************)
\* the paths of datasets asked for; no store holds the last one
Paths == {"timegrid", "coefficients", "missing"}

\* the entries of a dataset along axis 0 after that axis got extent n: the
\* kept entries, and the fill value 0 in the new ones
Refit(data, n) == [k \in 1..n |-> IF k <= Len(data) THEN data[k] ELSE 0]

\* Dataset.resize(size, axis=axis)
Resize(d, size, axis) ==
    [d EXCEPT !.shape[axis + 1] = size,
              !.data = IF axis = 0 THEN Refit(@, size) ELSE @]

\* must_resize with the resize one slot short: resize(slot) for resize(slot+1)
MustResizeOffByOne(d, slot, axis) ==
    LET cur_len == d.shape[axis + 1]
    IN  IF cur_len - 1 < slot THEN Resize(d, slot, axis) ELSE d

\* must_resize that grows by one slot per call: resize(cur_len+1)
MustResizeByOne(d, slot, axis) ==
    LET cur_len == d.shape[axis + 1]
    IN  IF cur_len - 1 < slot THEN Resize(d, cur_len + 1, axis) ELSE d

\* must_resize on the dataset d it addressed
MustResizeDataset(d, slot, axis) ==
    LET cur_len == d.shape[axis + 1]
    IN  IF cur_len - 1 < slot THEN Resize(d, slot + 1, axis) ELSE d

\* must_resize(path, slot, axis)
MustResize(path, slot, axis) ==
    /\ iom' = iom
    /\ IF iom.srf.state = "none"
         THEN /\ disk' = disk
              /\ ret' = Ret("must_resize", path, slot, axis, 0, NoResult, "TypeError")
         ELSE IF ~IsOpen
         THEN /\ disk' = disk
              /\ ret' = Ret("must_resize", path, slot, axis, 0, NoResult, "ValueError")
         ELSE IF path \notin DOMAIN Srf.ds
         THEN /\ disk' = disk
              /\ ret' = Ret("must_resize", path, slot, axis, 0, NoResult, "KeyError")
         ELSE IF axis + 1 > Len(Srf.ds[path].shape)
         THEN /\ disk' = disk
              /\ ret' = Ret("must_resize", path, slot, axis, 0, NoResult, "IndexError")
         ELSE /\ disk' = [disk EXCEPT ![iom.srf.file].ds[path] =
                             MustResizeDataset(@, slot, axis)]
              /\ ret' = Ret("must_resize", path, slot, axis,
                            Srf.ds[path].shape[axis + 1], NoResult, "none")

\* np.where(mask): the zero-based indices of the true entries of a boolean
\* array, in increasing order
RECURSIVE WhereFrom(_, _)
WhereFrom(mask, k) ==
    IF k > Len(mask) THEN <<>>
    ELSE (IF mask[k] THEN <<k - 1>> ELSE <<>>) \o WhereFrom(mask, k + 1)

Where(mask) == WhereFrom(mask, 1)

\* np.squeeze of the tuple np.where returns, an array of shape (1, n): the
\* axes of extent 1 go, so one match is a 0-d array and no match has shape (0,)
Squeeze(idx) ==
    [shape |-> IF Len(idx) = 1 THEN <<>> ELSE <<Len(idx)>>, v |-> idx]

\* find_timestep_index with timegrid[:] >= timestep for timegrid[:] == timestep
FindIndexAtOrAfter(tg, t) ==
    Squeeze(Where([k \in 1..Len(tg) |-> tg[k] >= t]))

\* find_timestep_index on the timegrid it read: the index array; the call
\* raises when its shape is (0,)
FindIndex(tg, t) ==
    Squeeze(Where([k \in 1..Len(tg) |-> tg[k] = t]))

\* find_timestep_index(timegridpath, timestep)
FindTimestepIndex(path, t) ==
    /\ iom' = iom
    /\ disk' = disk
    /\ IF iom.srf.state = "none"
         THEN ret' = Ret("find_timestep_index", path, t, 0, 0, NoResult, "TypeError")
         ELSE IF ~IsOpen
         THEN ret' = Ret("find_timestep_index", path, t, 0, 0, NoResult, "ValueError")
         ELSE IF path \notin DOMAIN Srf.ds
         THEN ret' = Ret("find_timestep_index", path, t, 0, 0, NoResult, "KeyError")
         ELSE LET index == FindIndex(Srf.ds[path].data, t)
              IN  ret' = Ret("find_timestep_index", path, t, 0, 0, index,
                             IF index.shape = <<0>> THEN "ValueError" ELSE "none")

(***************************************************************************)
(* InhomogeneousQuadrature: numbers.                                        *)
(*                                                                          *)
(* A complex floating point number is kept exactly: a Gaussian integer, or  *)
(* the one value NonFinite for a number with an inf or nan part.  Sums,     *)
(* differences and products with a non-finite operand are non-finite, as    *)
(* in IEEE arithmetic (0*inf is nan).  The parameters drawn below keep      *)
(* every quotient and root of a finite computation a Gaussian integer.      *)
(***************************************************************************)
C(re, im) == [fin |-> TRUE, re |-> re, im |-> im]
NonFinite == [fin |-> FALSE, re |-> 0, im |-> 0]

Zero == C(0, 0)
One == C(1, 0)

Add(a, b) == IF a.fin /\ b.fin THEN C(a.re + b.re, a.im + b.im) ELSE NonFinite
Sub(a, b) == IF a.fin /\ b.fin THEN C(a.re - b.re, a.im - b.im) ELSE NonFinite
Mul(a, b) ==
    IF a.fin /\ b.fin
      THEN C(a.re * b.re - a.im * b.im, a.re * b.im + a.im * b.re)
      ELSE NonFinite

\* a / b on numpy scalars: a zero divisor gives inf or nan and a warning, no
\* exception
Div(a, b) ==
    IF ~(a.fin /\ b.fin) THEN NonFinite
    ELSE LET n == b.re * b.re + b.im * b.im
         IN  IF n = 0 THEN NonFinite
             ELSE C((a.re * b.re + a.im * b.im) \div n,
                    (a.im * b.re - a.re * b.im) \div n)

\* scipy.conj, numpy.imag
Conj(a) == IF a.fin THEN C(a.re, 0 - a.im) ELSE NonFinite
Imag(a) == IF a.fin THEN C(a.im, 0) ELSE NonFinite

\* -0.5 * x for a real x
NegHalf(x) == IF x.fin THEN C((0 - x.re) \div 2, 0) ELSE NonFinite

\* the root of a perfect square
IRoot(n) == CHOOSE k \in 0..n : k * k = n

\* scipy.sqrt of a real x: the complex root when x is negative, never an
\* exception
Sqrt(x) ==
    IF ~x.fin THEN NonFinite
    ELSE IF x.re >= 0 THEN C(IRoot(x.re), 0) ELSE C(0, IRoot(0 - x.re))

\* 1j to the power k
RECURSIVE QuarterTurns(_)
QuarterTurns(k) ==
    IF k < 0 THEN QuarterTurns(k + 4)
    ELSE IF k = 0 THEN One
    ELSE Mul(C(0, 1), QuarterTurns(k - 1))

\* scipy.exp(1.0j/eps**2 * x) for x = k*eps**2*pi/2 with a whole k: S of a
\* parameter set is kept in units of eps**2*pi/2
ExpPhase(x) == IF x.fin /\ x.im = 0 THEN QuarterTurns(x.re) ELSE NonFinite

\* the sum of the entries of a sequence of numbers, left to right
RECURSIVE SumTo(_, _)
SumTo(xs, n) == IF n = 0 THEN Zero ELSE Add(SumTo(xs, n - 1), xs[n])
Sum(xs) == SumTo(xs, Len(xs))

(***************************************************************************)
(* InhomogeneousQuadrature: the objects it works on.                        *)
(***************************************************************************)
\* no object
None == [set |-> FALSE]

\* a quadrature rule: QR.get_nodes(), QR.get_weights(), QR.get_number_nodes()
Rule(nodes, weights) ==
    [set |-> TRUE, nodes |-> [k \in 1..Len(nodes) |-> C(nodes[k], 0)],
     weights |-> [k \in 1..Len(weights) |-> C(weights[k], 0)]]

\* the rules an engine is built with, and the rule a caller hands over
OwnRules == {Rule(<<0>>, <<2>>), Rule(<<-1, 1>>, <<1, 1>>)}
OtherRule == Rule(<<-2, 0, 2>>, <<1, 2, 1>>)

\* the parameter sets (P, Q, S, p, q) of one component: P/Q is 1j for a
\* proper set and -1j for an inverted one
ProperSet(q, S) == <<C(0, 1), One, C(S, 0), Zero, C(q, 0)>>
InvertedSet == <<C(0, -1), One, Zero, Zero, Zero>>

\* the parameter sets of the components of the sample packets, by variant
SampleParameters ==
    << <<ProperSet(0, 0), ProperSet(2, 1)>>,
       <<ProperSet(2, 1), InvertedSet>>,
       <<InvertedSet, ProperSet(0, 0)>> >>

\* a wavepacket: get_number_components(), get_basis_size(), eps,
\* get_parameters(aslist=True), get_coefficients()
Wavepacket(N, K, eps, variant) ==
    [N |-> N, K |-> K, eps |-> eps,
     Pi |-> [c \in 1..N |-> SampleParameters[variant][c]],
     coeff |-> [c \in 1..N |-> [j \in 1..K |-> C(j, c + variant - 2)]]]

\* the scale constants eps of a packet
Scales == {1, 2}

(***************************************************************************)
(* InhomogeneousQuadrature: mix_parameters and transform_nodes.             *)
(***************************************************************************)
\* mix_parameters(Pibra, Piket): no step of it raises for a zero imag(r) or a
\* non-positive Q0
MixParameters(Pibra, Piket) ==
    LET Pr == Pibra[1]
        Qr == Pibra[2]
        qr == Pibra[5]
        Pc == Piket[1]
        Qc == Piket[2]
        qc == Piket[5]
        rr == Div(Pr, Qr)
        rc == Div(Pc, Qc)
        r == Sub(Conj(rr), rc)
        s == Sub(Mul(Conj(rr), qr), Mul(rc, qc))
        q0 == Div(Imag(s), Imag(r))
        Q0 == NegHalf(Imag(r))
        QS == Div(One, Sqrt(Q0))
    IN  <<q0, QS>>

\* q0 + eps * QS * nodes, elementwise
Relocate(q0, eps, QS, nodes) ==
    [k \in 1..Len(nodes) |-> Add(q0, Mul(Mul(C(eps, 0), QS), nodes[k]))]

\* transform_nodes(Pibra, Piket, eps, QR): the outcome and the new array.
\* The rule picked in the first two lines is not the one read: the nodes are
\* those of self.QR, and without self.QR the call fails.
TransformNodes(self, Pibra, Piket, eps, QR) ==
    LET rule == IF ~QR.set THEN self.QR ELSE QR
        Pimix == MixParameters(Pibra, Piket)
    IN  IF ~self.QR.set
          THEN [exc |-> "AttributeError", nodes |-> <<>>]
          ELSE [exc |-> "none",
                nodes |-> Relocate(Pimix[1], eps, Pimix[2], self.QR.nodes)]

(***************************************************************************)
(* InhomogeneousQuadrature: quadrature and build_matrix.                    *)
(***************************************************************************)
\* an operator a caller hands over: "nodes" is a function f(nodes,
\* component=None), "q_nodes" a function f(q, nodes, component=None) and
\* "any" a function f(*args, **kwargs)
Operators == {None} \cup {[set |-> TRUE, form |-> f] : f \in {"nodes", "q_nodes", "any"}}

\* the values of a given operator at the nodes: the nodes themselves on the
\* diagonal and the constant coupling 1 off it
OperatorValues(nodes, row, col) ==
    [k \in 1..Len(nodes) |-> IF row = col THEN nodes[k] ELSE One]

\* the operator that stands for None: ones(nodes.shape) if component[0] ==
\* component[1] else zeros(nodes.shape)
DefaultOperator(nodes, row, col) ==
    [k \in 1..Len(nodes) |-> IF row = col THEN One ELSE Zero]

\* operator(nodes, component=(row,col)) in quadrature: a function of q and
\* nodes lacks an argument
NodesCallRaises(operator) == operator.set /\ operator.form = "q_nodes"

CallWithNodes(operator, nodes, row, col) ==
    IF ~operator.set THEN DefaultOperator(nodes, row, col)
    ELSE OperatorValues(nodes, row, col)

\* operator(Pimix[0], nodes, component=(row,col)) in build_matrix: a
\* function of nodes gets one argument too many
CenterAndNodesCallRaises(operator) == operator.set /\ operator.form = "nodes"

CallWithCenterAndNodes(operator, q0, nodes, row, col) ==
    IF ~operator.set THEN DefaultOperator(nodes, row, col)
    ELSE OperatorValues(nodes, row, col)

\* pac.evaluate_basis_at(nodes, component, prefactor=True): a K x R array;
\* the basis function of index j is the monomial of degree j and the
\* prefactor is Q of the component
EvaluateBasisAt(pac, nodes, component) ==
    [j \in 1..pac.K |->
        [k \in 1..Len(nodes) |->
            IF j = 1 THEN pac.Pi[component + 1][2]
            ELSE Mul(pac.Pi[component + 1][2], nodes[k])]]

\* exp(1.0j/eps**2 * (Piket[col][2]-conj(Pibra[row][2])))
Phase(Pibra, Piket, row, col) ==
    ExpPhase(Sub(Piket[col + 1][3], Conj(Pibra[row + 1][3])))

\* squeeze(eps * values * weights * Pimix[1])
Factor(eps, values, weights, QS) ==
    [k \in 1..Len(weights) |-> Mul(Mul(Mul(C(eps, 0), values[k]), weights[k]), QS)]

\* M after the loop over the nodes: M += factor[k] * tmpr.H * tmpc for k in
\* xrange(number_nodes), from zeros((Kbra,Kket))
RECURSIVE NodeSum(_, _, _, _, _, _)
NodeSum(factor, basisr, basisc, i, j, n) ==
    IF n = 0 THEN Zero
    ELSE Add(NodeSum(factor, basisr, basisc, i, j, n - 1),
             Mul(Mul(factor[n], Conj(basisr[i][n])), basisc[j][n]))

Accumulate(factor, basisr, basisc, Kbra, Kket) ==
    [i \in 1..Kbra |-> [j \in 1..Kket |->
        NodeSum(factor, basisr, basisc, i, j, Len(factor))]]

\* dot(M, v) for a K-vector v, and dot(conj(u).T, w)
DotMatrixVector(M, v) ==
    [i \in 1..Len(M) |-> Sum([j \in 1..Len(v) |-> Mul(M[i][j], v[j])])]
DotConjugate(u, w) == Sum([i \in 1..Len(u) |-> Mul(Conj(u[i]), w[i])])

\* the body of the loops of quadrature and build_matrix for one (row, col),
\* up to M, given the values of the operator
PairMatrix(self, pacbra, packet, values, row, col) ==
    LET eps == packet.eps
        Pibra == pacbra.Pi
        Piket == packet.Pi
        Pimix == MixParameters(Pibra[row + 1], Piket[col + 1])
        nodes == TransformNodes(self, Pibra[row + 1], Piket[col + 1], eps, None).nodes
        factor == Factor(eps, values, self.QR.weights, Pimix[2])
        basisr == EvaluateBasisAt(pacbra, nodes, row)
        basisc == EvaluateBasisAt(packet, nodes, col)
    IN  Accumulate(factor, basisr, basisc, pacbra.K, packet.K)

\* the nodes the operator is called with for (row, col)
PairNodes(self, pacbra, packet, row, col) ==
    TransformNodes(self, pacbra.Pi[row + 1], packet.Pi[col + 1], packet.eps, None).nodes

\* quadrature: what result.append() gets for (row, col)
PairScalar(self, pacbra, packet, operator, row, col) ==
    LET values == CallWithNodes(operator, PairNodes(self, pacbra, packet, row, col),
                                row, col)
        M == PairMatrix(self, pacbra, packet, values, row, col)
    IN  Mul(Phase(pacbra.Pi, packet.Pi, row, col),
            DotConjugate(pacbra.coeff[row + 1],
                         DotMatrixVector(M, packet.coeff[col + 1])))

\* build_matrix: phase * M for (row, col)
PairBlock(self, pacbra, packet, operator, row, col) ==
    LET q0 == MixParameters(pacbra.Pi[row + 1], packet.Pi[col + 1])[1]
        values == CallWithCenterAndNodes(operator, q0,
                      PairNodes(self, pacbra, packet, row, col), row, col)
        M == PairMatrix(self, pacbra, packet, values, row, col)
        phase == Phase(pacbra.Pi, packet.Pi, row, col)
    IN  [i \in 1..pacbra.K |-> [j \in 1..packet.K |-> Mul(phase, M[i][j])]]

\* the (row, col) the two loops visit with the loops exchanged: for col in
\* xrange(Nket): for row in xrange(Nbra)
LoopPairsColumnFirst(Nbra, Nket) ==
    [n \in 1..(Nbra * Nket) |-> <<(n - 1) % Nbra, (n - 1) \div Nbra>>]

\* the (row, col) the two loops visit, in order: for row in xrange(Nbra):
\* for col in xrange(Nket)
RECURSIVE LoopPairsFrom(_, _, _)
LoopPairsFrom(row, Nbra, Nket) ==
    IF row >= Nbra THEN <<>>
    ELSE [c \in 1..Nket |-> <<row, c - 1>>] \o LoopPairsFrom(row + 1, Nbra, Nket)

LoopPairs(Nbra, Nket) == LoopPairsFrom(0, Nbra, Nket)

\* the value quadrature returns, as a list or as one scalar
AsList(xs) == [kind |-> "list", list |-> xs, scalar |-> Zero]
AsScalar(x) == [kind |-> "scalar", list |-> <<>>, scalar |-> x]

\* the tail of quadrature: result[component], sum(result) or result
Select(result, summed, component) ==
    IF component.set
      THEN IF component.v >= Len(result)
             THEN [exc |-> "IndexError", value |-> AsList(<<>>)]
             ELSE [exc |-> "none", value |-> AsScalar(result[component.v + 1])]
    ELSE IF summed THEN [exc |-> "none", value |-> AsScalar(Sum(result))]
    ELSE [exc |-> "none", value |-> AsList(result)]

\* quadrature(pacbra, packet, operator, summed, component)
Quadrature(self, pacbra, packet, operator, summed, component) ==
    IF ~self.QR.set
      THEN [exc |-> "AttributeError", value |-> AsList(<<>>)]
    ELSE IF NodesCallRaises(operator)
      THEN [exc |-> "TypeError", value |-> AsList(<<>>)]
    ELSE LET pairs == LoopPairs(pacbra.N, packet.N)
             result == [n \in 1..Len(pairs) |->
                           PairScalar(self, pacbra, packet, operator,
                                      pairs[n][1], pairs[n][2])]
         IN  Select(result, summed, component)

\* a matrix of zeros: zeros((rows, cols)); writes counts the assignments an
\* entry has taken
Zeros2(rows, cols) ==
    [rows |-> rows, cols |-> cols,
     at |-> [i \in 1..rows |-> [j \in 1..cols |-> Zero]],
     writes |-> [i \in 1..rows |-> [j \in 1..cols |-> 0]]]

\* result[r0:r1, c0:c1] = block
AssignSlice(result, r0, r1, c0, c1, block) ==
    LET inside(i, j) == r0 < i /\ i <= r1 /\ c0 < j /\ j <= c1
    IN  [result EXCEPT
           !.at = [i \in 1..result.rows |-> [j \in 1..result.cols |->
                     IF inside(i, j) THEN block[i - r0][j - c0] ELSE @[i][j]]],
           !.writes = [i \in 1..result.rows |-> [j \in 1..result.cols |->
                     IF inside(i, j) THEN @[i][j] + 1 ELSE @[i][j]]]]

\* the slice of build_matrix with the offsets of both axes taken from the
\* basis size of the ket
PlaceBlockKetStride(result, row, col, Kbra, Kket, block) ==
    AssignSlice(result, row * Kket, row * Kket + Kbra,
                col * Kket, (col + 1) * Kket, block)

\* result[row*Kbra:(row+1)*Kbra, col*Kket:(col+1)*Kket] = phase * M
PlaceBlock(result, row, col, Kbra, Kket, block) ==
    AssignSlice(result, row * Kbra, (row + 1) * Kbra,
                col * Kket, (col + 1) * Kket, block)

\* build_matrix after the first n pairs of the loops
RECURSIVE BuildUpTo(_, _, _, _, _, _)
BuildUpTo(self, pacbra, packet, operator, pairs, n) ==
    IF n = 0 THEN Zeros2(pacbra.N * pacbra.K, packet.N * packet.K)
    ELSE PlaceBlock(BuildUpTo(self, pacbra, packet, operator, pairs, n - 1),
                    pairs[n][1], pairs[n][2], pacbra.K, packet.K,
                    PairBlock(self, pacbra, packet, operator, pairs[n][1], pairs[n][2]))

\* build_matrix(pacbra, packet, operator)
BuildMatrix(self, pacbra, packet, operator) ==
    IF ~self.QR.set
      THEN [exc |-> "AttributeError", value |-> Zeros2(0, 0)]
    ELSE IF CenterAndNodesCallRaises(operator)
      THEN [exc |-> "TypeError", value |-> Zeros2(0, 0)]
    ELSE LET pairs == LoopPairs(pacbra.N, packet.N)
         IN  [exc |-> "none",
              value |-> BuildUpTo(self, pacbra, packet, operator, pairs, Len(pairs))]

(***************************************************************************)
(* InhomogeneousQuadrature: the calls.                                      *)
(***************************************************************************)
\* no engine, and nothing called yet
NoQuadrature ==
    [QR |-> None, rule |-> None, pacbra |-> Wavepacket(1, 1, 1, 1),
     packet |-> Wavepacket(1, 1, 1, 1), operator |-> None]

NoNodeCall ==
    [op |-> "", row |-> 0, col |-> 0, given |-> FALSE, exc |-> "none",
     mix |-> <<Zero, Zero>>, nodes |-> <<>>]

NoQret ==
    [node |-> NoNodeCall,
     scalar |-> [called |-> FALSE, summed |-> FALSE, component |-> None,
                 exc |-> "none", value |-> AsList(<<>>)],
     matrix |-> [called |-> FALSE, exc |-> "none", value |-> Zeros2(0, 0)]]

StorageVars == <<disk, iom, ret, cfg, loop, pc, calls>>

\* mix_parameters(Pibra[row], Piket[col])
MixParametersCall(row, col) ==
    /\ row < quad.pacbra.N /\ col < quad.packet.N
    /\ qret' = [qret EXCEPT !.node =
                  [NoNodeCall EXCEPT !.op = "mix_parameters", !.row = row, !.col = col,
                      !.mix = MixParameters(quad.pacbra.Pi[row + 1],
                                            quad.packet.Pi[col + 1])]]
    /\ UNCHANGED <<StorageVars, quad>>

\* transform_nodes(Pibra[row], Piket[col], eps), with QR=rule when given
TransformNodesCall(row, col, given) ==
    /\ row < quad.pacbra.N /\ col < quad.packet.N
    /\ LET out == TransformNodes(quad, quad.pacbra.Pi[row + 1], quad.packet.Pi[col + 1],
                                 quad.packet.eps, IF given THEN quad.rule ELSE None)
       IN  qret' = [qret EXCEPT !.node =
                     [NoNodeCall EXCEPT !.op = "transform_nodes", !.row = row,
                         !.col = col, !.given = given, !.exc = out.exc,
                         !.nodes = out.nodes]]
    /\ UNCHANGED <<StorageVars, quad>>

\* quadrature(pacbra, packet, operator, summed, component)
QuadratureCall(summed, component) ==
    /\ LET out == Quadrature(quad, quad.pacbra, quad.packet, quad.operator,
                             summed, component)
       IN  qret' = [qret EXCEPT !.scalar =
                     [called |-> TRUE, summed |-> summed, component |-> component,
                      exc |-> out.exc, value |-> out.value]]
    /\ UNCHANGED <<StorageVars, quad>>

\* build_matrix(pacbra, packet, operator)
BuildMatrixCall ==
    /\ LET out == BuildMatrix(quad, quad.pacbra, quad.packet, quad.operator)
       IN  qret' = [qret EXCEPT !.matrix =
                     [called |-> TRUE, exc |-> out.exc, value |-> out.value]]
    /\ UNCHANGED <<StorageVars, quad>>

(***************************************************************************)
(* The storage layer on its own: files, handles and blocks.                 *)
(***************************************************************************)
LoopVars == <<cfg, loop, pc, calls>>

\* the parameters object of a run that saves every step
DefaultConfig(n) ==
    [nsteps |-> n, saveAt |-> 1..n, ncomponents |-> 1, nparams |-> 1,
     ncoeffs |-> 1, basis_size |-> 2]

SampleConfigs == {DefaultConfig(n) : n \in 0..MaxSteps}

\* no simulation loop has been constructed
NoLoop == [constructed |-> FALSE, propagator |-> "None", nsteps |-> 0,
           packet |-> 0, i |-> 0]

NoLoopInit ==
    /\ cfg = DefaultConfig(0)
    /\ loop = NoLoop
    /\ pc = "idle"
    /\ calls = <<>>
    /\ quad = NoQuadrature
    /\ qret = NoQret

FreshIOManager == [parameters |-> <<>>, srf |-> NoHandle, dict |-> {}]

\* the store create_file leaves for parameters p, after n further create_block
RECURSIVE WithBlocks(_, _)
WithBlocks(s, n) == IF n = 0 THEN s ELSE WithBlocks(CreateBlockStore(s), n - 1)

CreatedStore(p) == CreateBlockStore(SaveSimulationParameters(NewFile, p))

\* the result files an earlier run can have left
OldStores == {WithBlocks(CreatedStore(p), n) : p \in SampleConfigs, n \in 0..1}

InitIOM ==
    /\ \E old \in {NoFile} \cup OldStores :
          disk = [f \in Files |-> IF f = DefaultFile THEN old ELSE NoFile]
    /\ iom = FreshIOManager
    /\ ret = NoCall
    /\ NoLoopInit

NextIOM ==
    \/ \E p \in SampleConfigs, f \in Files : CreateFile(p, f) /\ UNCHANGED <<LoopVars, QuadVars>>
    \/ \E f \in Files : LoadFile(f) /\ UNCHANGED <<LoopVars, QuadVars>>
    \/ CreateBlock /\ UNCHANGED <<LoopVars, QuadVars>>
    \/ Finalize /\ UNCHANGED <<LoopVars, QuadVars>>

SpecIOM == InitIOM /\ [][NextIOM]_vars

\* C1: create_file on a target that exists raises ValueError and changes
\* neither the store on disk (block counter, configuration record, block
\* containers) nor the handle of the IOManager; so a second create_file on
\* the target of a successful first one fails that way.
C1_CreateOnExistingTargetFails ==
    [][ /\ (ret'.op = "create_file" /\ disk[ret'.path].exists) =>
              /\ ret'.exc = "ValueError"
              /\ disk' = disk
              /\ iom'.srf = iom.srf
        /\ (/\ ret.op = "create_file" /\ ret.exc = "none"
            /\ ret'.op = "create_file" /\ ret'.path = ret.path) =>
              /\ ret'.exc = "ValueError"
              /\ disk' = disk ]_vars

\* a second create_file on the target the IOManager created has failed
C1_Witness ==
    /\ ret.op = "create_file" /\ ret.exc = "ValueError" /\ ret.again
    /\ iom.srf = OpenHandle(ret.path)
    /\ disk[ret.path].number_blocks >= 1

\* C9: in every store the block counter is the number of block containers,
\* at least one, and the containers are datablock_0 .. datablock_(counter-1);
\* create_file leaves exactly datablock_0, and each create_block adds the one
\* container named by the old counter and increments the counter by one.
C9_BlockCounterMatchesContainers ==
    /\ [](\A f \in Files : disk[f].exists =>
            /\ disk[f].number_blocks >= 1
            /\ disk[f].blocks = {<<"datablock", k>> : k \in 0..(disk[f].number_blocks - 1)}
            /\ Cardinality(disk[f].blocks) = disk[f].number_blocks)
    /\ [][ /\ (ret'.op = "create_file" /\ ret'.exc = "none") =>
                 /\ disk'[ret'.path].number_blocks = 1
                 /\ disk'[ret'.path].blocks = {<<"datablock", 0>>}
           /\ (ret'.op = "create_block" /\ ret'.exc = "none") =>
                 LET old == disk[iom.srf.file]
                     new == disk'[iom.srf.file]
                 IN  /\ new.number_blocks = old.number_blocks + 1
                     /\ new.blocks = old.blocks \cup {<<"datablock", old.number_blocks>>}
                     /\ <<"datablock", old.number_blocks>> \notin old.blocks ]_vars

\* a store made by create_file has been given two further blocks
C9_Witness ==
    /\ ret.op = "create_block" /\ ret.exc = "none" /\ ret.again
    /\ iom.srf.file # DefaultFile
    /\ Srf.number_blocks = 3

(***************************************************************************)
(* Resizing the datasets of an open store.                                  *)
(***************************************************************************)
\* a dataset with the given shape and entries along axis 0
Dataset(shape, data) == [shape |-> shape, data |-> data, pointer |-> 0]

\* a store holding a timegrid of n written slots and the coefficients
\* [slot, component, K] that belong to it
SeriesStore(n, N, K) ==
    [CreatedStore(DefaultConfig(0)) EXCEPT !.ds =
        [q \in {"timegrid", "coefficients"} |->
            IF q = "timegrid"
              THEN Dataset(<<n>>, [k \in 1..n |-> k - 1])
              ELSE Dataset(<<n, N, K>>, [k \in 1..n |-> k])]]

InitResize ==
    /\ \E n \in 0..MaxSlot, N \in ComponentCounts, K \in BasisSizes :
          disk = [f \in Files |-> IF f = DefaultFile THEN SeriesStore(n, N, K)
                                                       ELSE NoFile]
    /\ iom = [FreshIOManager EXCEPT !.parameters = <<DefaultConfig(0)>>,
                                    !.srf = OpenHandle(DefaultFile)]
    /\ ret = NoCall
    /\ NoLoopInit

NextResize ==
    \E path \in Paths, slot \in 0..MaxSlot, axis \in 0..2 :
        MustResize(path, slot, axis) /\ UNCHANGED <<LoopVars, QuadVars>>

SpecResize == InitResize /\ [][NextResize]_vars

\* C7: must_resize(path, slot, axis) makes the extent along axis slot+1 when
\* slot >= the extent, and leaves it when slot < the extent; the extent never
\* decreases, the other axes of the dataset keep their extents, and every
\* other dataset is unchanged.
C7_MustResizeGrowsToSlotPlusOne ==
    [][ (ret'.op = "must_resize" /\ ret'.exc = "none") =>
          LET f == iom.srf.file
              old == disk[f].ds[ret'.path].shape
              new == disk'[f].ds[ret'.path].shape
              ax == ret'.b + 1
              slot == ret'.a
          IN  /\ slot >= old[ax] => new[ax] = slot + 1
              /\ slot < old[ax] => new[ax] = old[ax]
              /\ new[ax] >= old[ax]
              /\ Len(new) = Len(old)
              /\ \A j \in 1..Len(old) : j # ax => new[j] = old[j]
              /\ DOMAIN disk'[f].ds = DOMAIN disk[f].ds
              /\ \A q \in DOMAIN disk[f].ds :
                     q # ret'.path => disk'[f].ds[q] = disk[f].ds[q] ]_vars

\* must_resize has grown the component axis of the coefficients
C7_Witness ==
    /\ ret.op = "must_resize" /\ ret.exc = "none"
    /\ ret.path = "coefficients" /\ ret.b = 1
    /\ ret.cur_len <= ret.a
    /\ Srf.ds["coefficients"].shape[2] = ret.a + 1

\* C8: a second must_resize with the arguments of the call right before it
\* leaves the extents of every dataset as the first call left them.
C8_ResizeIdempotent ==
    [][ (/\ ret.op = "must_resize" /\ ret.exc = "none"
         /\ ret'.op = "must_resize"
         /\ ret'.path = ret.path /\ ret'.a = ret.a /\ ret'.b = ret.b) =>
          /\ ret'.exc = "none"
          /\ \A q \in DOMAIN disk[iom.srf.file].ds :
                 disk'[iom.srf.file].ds[q].shape = disk[iom.srf.file].ds[q].shape ]_vars

\* must_resize has been repeated on a timegrid that a call grew to slot+1
C8_Witness ==
    /\ ret.op = "must_resize" /\ ret.exc = "none" /\ ret.again
    /\ ret.path = "timegrid" /\ ret.a = MaxSlot /\ ret.b = 0
    /\ Srf.ds["timegrid"].shape = <<MaxSlot + 1>>

(***************************************************************************)
(* Looking timesteps up in the timegrid of an open store.                   *)
(***************************************************************************)
RECURSIVE SeqsUpTo(_, _)
SeqsUpTo(S, n) ==
    IF n = 0 THEN {<<>>}
    ELSE LET shorter == SeqsUpTo(S, n - 1)
         IN  shorter \cup {Append(q, x) : q \in shorter, x \in S}

Timegrids == SeqsUpTo(TimeValues, MaxLen)

LookupStore(tg) ==
    [CreatedStore(DefaultConfig(0)) EXCEPT !.ds =
        [q \in {"timegrid"} |-> Dataset(<<Len(tg)>>, tg)]]

InitLookup ==
    /\ \E tg \in Timegrids :
          disk = [f \in Files |-> IF f = DefaultFile THEN LookupStore(tg) ELSE NoFile]
    /\ iom = [FreshIOManager EXCEPT !.parameters = <<DefaultConfig(0)>>,
                                    !.srf = OpenHandle(DefaultFile)]
    /\ ret = NoCall
    /\ NoLoopInit

NextLookup ==
    \E path \in {"timegrid", "missing"}, t \in LookupValues :
        FindTimestepIndex(path, t) /\ UNCHANGED <<LoopVars, QuadVars>>

SpecLookup == InitLookup /\ [][NextLookup]_vars

StrictlyIncreasing(tg) == \A j, k \in 1..Len(tg) : j < k => tg[j] < tg[k]

\* C6: on a strictly increasing timegrid find_timestep_index returns the one
\* slot index i with timegrid[i] = t when there is one and raises ValueError
\* when there is none, and the lookup changes neither store nor handle;
\* in [0,5,10,15] it finds 10 at index 2 and raises for 7.
C6_FindTimestepIndexExact ==
    /\ []((ret.op = "find_timestep_index" /\ ret.path = "timegrid") =>
            LET tg == Srf.ds["timegrid"].data
                hits == {k \in 1..Len(tg) : tg[k] = ret.a}
            IN  /\ StrictlyIncreasing(tg) =>
                      /\ hits # {} => /\ ret.exc = "none"
                                      /\ ret.result.shape = <<>>
                                      /\ \A k \in hits : ret.result.v = <<k - 1>>
                      /\ hits = {} => ret.exc = "ValueError"
                /\ (tg = <<0, 5, 10, 15>> /\ ret.a = 10) =>
                      (ret.exc = "none" /\ ret.result.v = <<2>>)
                /\ (tg = <<0, 5, 10, 15>> /\ ret.a = 7) => ret.exc = "ValueError")
    /\ [][ret'.op = "find_timestep_index" => (disk' = disk /\ iom' = iom)]_vars

\* 10 has been looked up in the timegrid [0,5,10,15] and found at index 2
C6_Witness ==
    /\ ret.op = "find_timestep_index" /\ ret.exc = "none"
    /\ Srf.ds["timegrid"].data = <<0, 5, 10, 15>>
    /\ ret.a = 10 /\ ret.result = [shape |-> <<>>, v |-> <<2>>]

(***************************************************************************)
(* The time series of a wavepacket in a block, and the save policy.         *)
(***************************************************************************)
\* the entries of one parameter set (P, Q, S, p, q)
ParameterTupleSize == 5

\* the tracked quantities of the inhomogeneous wavepacket
Quantities == {"coefficients", "parameters"}

\* the timegrid that maps the slots of a quantity to timesteps
TimegridOf(q) ==
    IF q = "coefficients" THEN "timegrid_coefficients" ELSE "timegrid_parameters"

\* TimeManager.must_save(i): the save policy selects step i
MustSave(c, i) == i \in c.saveAt

\* TimeManager.compute_number_saves(): the initial snapshot and one per
\* selected step
ComputeNumberSaves(c) ==
    1 + Cardinality({i \in 1..c.nsteps : MustSave(c, i)})

Zeros(n) == [k \in 1..n |-> 0]

\* add_grid, add_wavepacket_inhomog(timeslots=slots) and save_grid: the grid
\* (its nodes kept as one entry) and, per quantity, the series and its timegrid
\* with slots allocated along axis 0 and none written
AddSeries(s, c, slots) ==
    [s EXCEPT !.ds =
        [q \in {"grid", "coefficients", "parameters",
                "timegrid_coefficients", "timegrid_parameters"} |->
            CASE q = "grid" -> Dataset(<<1>>, <<1>>)
              [] q = "coefficients" ->
                    Dataset(<<slots, c.ncomponents, c.basis_size>>, Zeros(slots))
              [] q = "parameters" ->
                    Dataset(<<slots, ParameterTupleSize>>, Zeros(slots))
              [] OTHER -> Dataset(<<slots>>, Zeros(slots))]]

\* save_coefficients_inhomog / save_parameters_inhomog(value, timestep): the
\* next free slot of the quantity is made to exist, then takes the value, and
\* its timegrid takes the timestep
SaveSnapshot(s, q, value, timestep) ==
    LET tgp == TimegridOf(q)
        slot == s.ds[tgp].pointer
        d == MustResizeDataset(s.ds[q], slot, 0)
        tg == MustResizeDataset(s.ds[tgp], slot, 0)
    IN  [s EXCEPT !.ds[q] = [d EXCEPT !.data[slot + 1] = value],
                  !.ds[tgp] = [tg EXCEPT !.data[slot + 1] = timestep,
                                         !.pointer = slot + 1]]

(***************************************************************************)
(* SimulationLoopMultiHagedorn.                                             *)
(*                                                                          *)
(* The wavepacket the propagator owns is kept as the number of propagate()  *)
(* applied to the initial packet, plus one (0 is the fill value of unwritten *)
(* slots).  A handler that writes more than once is a sequence of steps      *)
(* ordered by pc; no other call starts before pc is back to "idle".          *)
(***************************************************************************)
\* a call on the loop has returned or raised
Called(name, outcome) == calls' = Append(calls, <<name, outcome>>)

\* a call on the loop can start
CanCall == loop.constructed /\ pc = "idle" /\ Len(calls) < MaxCalls

\* __init__(parameters)
Construct ==
    /\ ~loop.constructed
    /\ pc = "idle"
    /\ CreateFile(cfg, DefaultFile)
    /\ loop' = IF ret'.exc = "none"
                 THEN [constructed |-> TRUE, propagator |-> "None",
                       nsteps |-> cfg.nsteps, packet |-> 0, i |-> 0]
                 ELSE loop
    /\ UNCHANGED <<cfg, pc, calls, quad, qret>>

\* prepare_simulation: the test for enough initial values
TooFewParameters(c) == c.nparams < c.ncomponents

\* the second test repeating the first: len(parameters.parameters) for
\* len(parameters.coefficients)
TooFewCoefficientsAsParameters(c) == c.nparams < c.ncomponents

TooFewCoefficients(c) == c.ncoeffs < c.ncomponents

\* prepare_simulation, up to save_grid
PrepareSimulation ==
    /\ CanCall
    /\ UNCHANGED <<cfg, iom, quad, qret>>
    /\ IF TooFewParameters(cfg) \/ TooFewCoefficients(cfg)
         THEN /\ Called("prepare", "ValueError: too few initial states")
              /\ UNCHANGED <<disk, ret, loop, pc>>
         ELSE /\ loop' = [loop EXCEPT !.propagator = "set", !.packet = 1]
              /\ IF ~IsOpen \/ "grid" \in DOMAIN Srf.ds
                   THEN /\ Called("prepare", "ValueError: add_grid")
                        /\ ret' = Ret("add_grid", "grid", 0, 0, 0, NoResult, "ValueError")
                        /\ UNCHANGED <<disk, pc>>
                   ELSE /\ disk' = [disk EXCEPT ![iom.srf.file] =
                                       AddSeries(@, cfg, ComputeNumberSaves(cfg))]
                        /\ ret' = Ret("save_grid", "grid", 0, 0, 0, NoResult, "none")
                        /\ pc' = "prepare_coefficients"
                        /\ calls' = calls

\* the handler a save step belongs to
HandlerOf(at) ==
    IF at \in {"prepare_coefficients", "prepare_parameters"} THEN "prepare" ELSE "run"

\* run_simulation with the snapshot of iteration i tagged timestep=i-1
SnapshotTagStale(i) == i - 1

\* run_simulation: the timestep a snapshot of iteration i is tagged with
SnapshotTag(i) == i

\* the timestep argument of the save calls of a handler
TimestepAt(at) ==
    IF HandlerOf(at) = "prepare" THEN 0 ELSE SnapshotTag(loop.i)

\* one save call of prepare_simulation or run_simulation
Save(q, op) ==
    /\ UNCHANGED <<cfg, iom, quad, qret>>
    /\ IF ~IsOpen
         THEN /\ Called(HandlerOf(pc), "ValueError: closed file")
              /\ ret' = Ret(op, q, TimestepAt(pc), 0, 0, NoResult, "ValueError")
              /\ pc' = "idle"
              /\ UNCHANGED <<disk, loop>>
         ELSE /\ disk' = [disk EXCEPT ![iom.srf.file] =
                             SaveSnapshot(@, q, loop.packet, TimestepAt(pc))]
              /\ ret' = Ret(op, q, TimestepAt(pc), 0, 0, NoResult, "none")
              /\ CASE pc = "prepare_coefficients" ->
                        /\ pc' = "prepare_parameters"
                        /\ UNCHANGED <<loop, calls>>
                   [] pc = "prepare_parameters" ->
                        /\ pc' = "idle"
                        /\ Called("prepare", "ok")
                        /\ loop' = loop
                   [] pc = "run_coefficients" ->
                        /\ pc' = "run_parameters"
                        /\ UNCHANGED <<loop, calls>>
                   [] pc = "run_parameters" ->
                        /\ pc' = "run_loop"
                        /\ loop' = [loop EXCEPT !.i = @ + 1]
                        /\ calls' = calls

\* save_coefficients_inhomog(get_coefficients(), timestep)
SaveCoefficients ==
    /\ pc \in {"prepare_coefficients", "run_coefficients"}
    /\ Save("coefficients", "save_coefficients_inhomog")

\* the second save call of a save point repeating the first:
\* save_coefficients_inhomog(get_coefficients(), timestep)
SaveParametersAsCoefficients ==
    /\ pc \in {"prepare_parameters", "run_parameters"}
    /\ Save("coefficients", "save_coefficients_inhomog")

\* save_parameters_inhomog(get_parameters(), timestep)
SaveParameters ==
    /\ pc \in {"prepare_parameters", "run_parameters"}
    /\ Save("parameters", "save_parameters_inhomog")

\* run_simulation: the loop that stops one step early
LoopContinuesShort(i, n) == i < n

\* run_simulation: for i in xrange(1, nsteps+1)
LoopContinues(i, n) == i <= n

\* run_simulation: the snapshot that ignores the save policy
SaveAlways(c, i) == TRUE

\* run_simulation: if tm.must_save(i)
SaveDue(c, i) == MustSave(c, i)

\* run_simulation is entered
RunSimulation ==
    /\ CanCall
    /\ pc' = "run_loop"
    /\ loop' = [loop EXCEPT !.i = 1]
    /\ UNCHANGED <<disk, iom, ret, cfg, calls, quad, qret>>

\* run_simulation: the head of the loop and propagate() of one iteration
RunStep ==
    /\ pc = "run_loop"
    /\ UNCHANGED <<disk, iom, ret, cfg, quad, qret>>
    /\ IF ~LoopContinues(loop.i, loop.nsteps)
         THEN /\ pc' = "idle"
              /\ Called("run", "ok")
              /\ loop' = loop
         ELSE IF loop.propagator = "None"
         THEN /\ pc' = "idle"
              /\ Called("run", "AttributeError")
              /\ loop' = loop
         ELSE /\ calls' = calls
              /\ IF SaveDue(cfg, loop.i)
                   THEN /\ pc' = "run_coefficients"
                        /\ loop' = [loop EXCEPT !.packet = @ + 1]
                   ELSE /\ pc' = "run_loop"
                        /\ loop' = [loop EXCEPT !.packet = @ + 1, !.i = @ + 1]

\* end_simulation
EndSimulation ==
    /\ CanCall
    /\ Finalize
    /\ Called("end", IF ret'.exc = "none" THEN "ok" ELSE ret'.exc)
    /\ UNCHANGED <<cfg, loop, pc, quad, qret>>

\* a result file of an earlier run may be in the way
Init ==
    /\ cfg \in Configs
    /\ \E old \in {NoFile, CreatedStore(DefaultConfig(0))} :
          disk = [f \in Files |-> IF f = DefaultFile THEN old ELSE NoFile]
    /\ iom = FreshIOManager
    /\ ret = NoCall
    /\ loop = NoLoop
    /\ pc = "idle"
    /\ calls = <<>>
    /\ quad = NoQuadrature
    /\ qret = NoQret

Next ==
    \/ Construct
    \/ PrepareSimulation
    \/ SaveCoefficients
    \/ SaveParameters
    \/ RunSimulation
    \/ RunStep
    \/ EndSimulation

Spec == Init /\ [][Next]_vars

(***************************************************************************)
(* Properties of the simulation loop.                                       *)
(***************************************************************************)
\* the elements of a finite set of integers in increasing order
RECURSIVE SortedSeq(_)
SortedSeq(S) ==
    IF S = {} THEN <<>>
    ELSE LET m == CHOOSE x \in S : \A y \in S : x <= y
         IN  <<m>> \o SortedSeq(S \ {m})

\* the store of the run
RunStore == disk[DefaultFile]

\* the timesteps recorded so far for quantity q, and the snapshots under them
WrittenTimegrid(q) ==
    SubSeq(RunStore.ds[TimegridOf(q)].data, 1, RunStore.ds[TimegridOf(q)].pointer)
WrittenData(q) ==
    SubSeq(RunStore.ds[q].data, 1, RunStore.ds[TimegridOf(q)].pointer)

PrepareOk == <<"prepare", "ok">>
RunOk == <<"run", "ok">>
EndOk == <<"end", "ok">>

\* prepare_simulation has returned and nothing else was called
AfterPrepare == calls = <<PrepareOk>> /\ pc = "idle"
\* the first run_simulation after prepare_simulation is under way
InRun == calls = <<PrepareOk>> /\ pc \in {"run_loop", "run_coefficients", "run_parameters"}
\* it has just returned
AfterRun == calls = <<PrepareOk, RunOk>> /\ pc = "idle"
\* prepare, run and end have been called in this order and returned
AfterEnd == calls = <<PrepareOk, RunOk, EndOk>>

\* the steps of 1..n the save policy of the run selects
Selected(n) == {j \in 1..n : j \in cfg.saveAt}

\* the last step whose snapshot of quantity q is due to be in the store
SavedUpTo(q) ==
    CASE AfterRun -> cfg.nsteps
      [] pc = "run_parameters" /\ q = "coefficients" -> loop.i
      [] OTHER -> loop.i - 1

\* C2: when prepare_simulation has failed for too few initial parameter or
\* coefficient sets, no result file has been created and the IOManager holds
\* no handle: the test comes before the first storage creation.
C2_ConfigurationCheckBeforeStorage ==
    (\E k \in 1..Len(calls) :
        calls[k] = <<"prepare", "ValueError: too few initial states">>) =>
        (~disk[DefaultFile].exists /\ iom.srf.state = "none")

\* the calls on the loop that returned normally, in order
Effective == SelectSeq(calls, LAMBDA c : c[2] = "ok")

\* C3: the calls that take effect on one loop follow the lifecycle
\* prepare, run, end: none is skipped, repeated or out of order.
C3_StrictlySequential ==
    /\ Len(Effective) <= 3
    /\ \A k \in 1..Len(Effective) :
          Effective[k][1] = <<"prepare", "run", "end">>[k]

\* C4: during and after run_simulation on a prepared loop, propagate() has
\* been applied once for each step index below the current one, in order;
\* the snapshots in the store are those of the initial state and of exactly
\* the steps the save policy selects, each tagged with its step and holding
\* the packet after that step's propagate and before the next one; a step
\* the policy does not select writes nothing.
C4_RunPropagatesEachStepAndSavesWhenDue ==
    /\ []((InRun \/ AfterRun) =>
            /\ pc = "run_loop" =>
                  (loop.i \in 1..(cfg.nsteps + 1) /\ loop.packet = loop.i)
            /\ pc \in {"run_coefficients", "run_parameters"} =>
                  /\ loop.i \in 1..cfg.nsteps
                  /\ loop.i \in cfg.saveAt
                  /\ loop.packet = loop.i + 1
            /\ AfterRun => loop.packet = cfg.nsteps + 1
            /\ \A q \in Quantities :
                  /\ WrittenTimegrid(q) = <<0>> \o SortedSeq(Selected(SavedUpTo(q)))
                  /\ \A k \in 1..Len(WrittenTimegrid(q)) :
                        WrittenData(q)[k] = WrittenTimegrid(q)[k] + 1)
    /\ [][(InRun /\ disk' # disk) =>
            (pc \in {"run_coefficients", "run_parameters"} /\ loop.i \in cfg.saveAt)]_vars
    /\ [][(InRun /\ loop'.packet # loop.packet) =>
            (pc = "run_loop" /\ loop'.packet = loop.packet + 1 /\ disk' = disk)]_vars

\* a run of three steps has returned with the snapshots of steps 1 and 3 only
C4_Witness ==
    /\ AfterRun
    /\ cfg.nsteps = 3 /\ cfg.saveAt = {1, 3}
    /\ WrittenTimegrid("coefficients") = <<0, 1, 3>>
    /\ WrittenData("parameters") = <<1, 2, 4>>

\* C5: prepare_simulation leaves the initial condition in slot 0, tagged
\* timestep 0; after prepare, run and end the coefficient and the parameter
\* history hold exactly 1+|S| slots, all written, and each timegrid is 0
\* followed by the selected steps S in increasing order.  With 1 component,
\* basis size 2, 3 steps, every step saved: 4 slots, timegrid [0,1,2,3],
\* coefficients of shape [4,1,2].
C5_EndToEndHistory ==
    /\ AfterPrepare =>
          \A q \in Quantities :
              /\ WrittenTimegrid(q) = <<0>>
              /\ WrittenData(q) = <<1>>
    /\ AfterEnd =>
          LET n == 1 + Cardinality(cfg.saveAt \cap 1..cfg.nsteps)
          IN  /\ iom.srf.state = "closed"
              /\ \A q \in Quantities :
                    /\ RunStore.ds[TimegridOf(q)].pointer = n
                    /\ RunStore.ds[q].shape[1] = n
                    /\ RunStore.ds[TimegridOf(q)].data =
                          <<0>> \o SortedSeq(cfg.saveAt \cap 1..cfg.nsteps)
                    /\ RunStore.ds[q].data[1] = 1
              /\ RunStore.ds["coefficients"].shape =
                    <<n, cfg.ncomponents, cfg.basis_size>>
              /\ (/\ cfg.ncomponents = 1 /\ cfg.basis_size = 2
                  /\ cfg.nsteps = 3 /\ cfg.saveAt = {1, 2, 3}) =>
                    /\ RunStore.ds["timegrid_parameters"].data = <<0, 1, 2, 3>>
                    /\ RunStore.ds["timegrid_coefficients"].data = <<0, 1, 2, 3>>
                    /\ RunStore.ds["parameters"].shape[1] = 4
                    /\ RunStore.ds["coefficients"].shape = <<4, 1, 2>>

\* the run of the end-to-end scenario has been finalized
C5_Witness ==
    /\ AfterEnd
    /\ cfg.ncomponents = 1 /\ cfg.basis_size = 2
    /\ cfg.nsteps = 3 /\ cfg.saveAt = {1, 2, 3}
    /\ RunStore.ds["coefficients"].shape = <<4, 1, 2>>

\* C10: from construction through prepare_simulation and the first
\* run_simulation, the timesteps recorded so far for each quantity are
\* strictly increasing and start with timestep 0.
C10_RecordedTimestepsIncrease ==
    (calls = <<>> \/ calls = <<PrepareOk>> \/ AfterRun) =>
        \A q \in Quantities :
            TimegridOf(q) \in DOMAIN RunStore.ds =>
                /\ StrictlyIncreasing(WrittenTimegrid(q))
                /\ Len(WrittenTimegrid(q)) >= 1 => WrittenTimegrid(q)[1] = 0

\* a run has recorded the initial snapshot and two later ones
C10_Witness ==
    /\ InRun
    /\ Len(WrittenTimegrid("parameters")) >= 3

\* C11: when fewer initial parameter sets or fewer initial coefficient sets
\* than components are configured, every prepare_simulation raises the
\* ValueError for too few initial states, the propagator stays unset, no
\* wavepacket is built and no dataset or snapshot is written to any store.
C11_PrepareRejectsTooFewInitialValues ==
    (cfg.nparams < cfg.ncomponents \/ cfg.ncoeffs < cfg.ncomponents) =>
        /\ loop.propagator = "None"
        /\ loop.packet = 0
        /\ pc \notin {"prepare_coefficients", "prepare_parameters",
                      "run_coefficients", "run_parameters"}
        /\ \A f \in Files : DOMAIN disk[f].ds = {}
        /\ \A k \in 1..Len(calls) :
              calls[k][1] = "prepare" =>
                  calls[k][2] = "ValueError: too few initial states"

\* prepare_simulation has failed on a loop that has enough parameter sets but
\* too few coefficient sets
C11_Witness ==
    /\ loop.constructed
    /\ cfg.ncomponents = 2 /\ cfg.nparams = 2 /\ cfg.ncoeffs = 1
    /\ \E k \in 1..Len(calls) :
          calls[k] = <<"prepare", "ValueError: too few initial states">>
    /\ loop.propagator = "None"
    /\ DOMAIN RunStore.ds = {}

(***************************************************************************)
(* Mixing parameter sets and relocating the nodes of a rule.                *)
(***************************************************************************)
\* no store, no manager and no loop
NoStorageInit ==
    /\ disk = [f \in Files |-> NoFile]
    /\ iom = FreshIOManager
    /\ ret = NoCall
    /\ cfg = DefaultConfig(0)
    /\ loop = NoLoop
    /\ pc = "idle"
    /\ calls = <<>>

\* an engine built with a rule or with none, a rule of the caller's own, and
\* two packets
InitMix ==
    /\ \E own \in OwnRules \cup {None}, Nbra \in ComponentCounts,
          Nket \in ComponentCounts, vb \in 1..3, vk \in 1..3, eps \in Scales :
          quad = [QR |-> own, rule |-> OtherRule,
                  pacbra |-> Wavepacket(Nbra, 1, 1, vb),
                  packet |-> Wavepacket(Nket, 1, eps, vk),
                  operator |-> None]
    /\ qret = NoQret
    /\ NoStorageInit

NextMix ==
    \/ \E row \in 0..1, col \in 0..1 : MixParametersCall(row, col)
    \/ \E row \in 0..1, col \in 0..1, given \in BOOLEAN :
          TransformNodesCall(row, col, given)

SpecMix == InitMix /\ [][NextMix]_vars

\* the parameter sets of the last call on a pair of components
BraSet == quad.pacbra.Pi[qret.node.row + 1]
KetSet == quad.packet.Pi[qret.node.col + 1]

\* C12: mix_parameters raises, and returns no (q0, QS), whenever imag(r) = 0
\* or Q0 = -0.5*imag(r) <= 0 for r = conj(Pr/Qr) - Pc/Qc.
C12_DegenerateMixFails ==
    qret.node.op = "mix_parameters" =>
        LET r == Sub(Conj(Div(BraSet[1], BraSet[2])), Div(KetSet[1], KetSet[2]))
        IN  (r.im = 0 \/ 0 - r.im <= 0) => qret.node.exc # "none"

\* C18: transform_nodes returns q0 + eps*QS*node for the nodes of the rule
\* handed over as QR, and for those of the engine's rule only when no QR is
\* handed over; the result has the length and order of that rule's nodes,
\* and no rule is changed by the call.
C18_TransformNodesMapsGivenRule ==
    /\ []((/\ qret.node.op = "transform_nodes"
            /\ (qret.node.given \/ quad.QR.set)) =>
            LET rule == IF qret.node.given THEN quad.rule ELSE quad.QR
                q0 == MixParameters(BraSet, KetSet)[1]
                QS == MixParameters(BraSet, KetSet)[2]
                scale == Mul(C(quad.packet.eps, 0), QS)
            IN  /\ qret.node.exc = "none"
                /\ Len(qret.node.nodes) = Len(rule.nodes)
                /\ \A k \in 1..Len(rule.nodes) :
                      qret.node.nodes[k] = Add(q0, Mul(scale, rule.nodes[k])))
    /\ [][quad'.QR = quad.QR /\ quad'.rule = quad.rule]_vars

(***************************************************************************)
(* Quadrature and matrix of a pair of packets.                              *)
(***************************************************************************)
\* the component argument of quadrature: None or an index into the result
Components == {None} \cup {[set |-> TRUE, v |-> n] : n \in 0..3}

InitQuad ==
    /\ \E own \in {Rule(<<-1, 1>>, <<1, 1>>), None}, op \in Operators,
          Nb \in ComponentCounts, Nk \in ComponentCounts,
          Kb \in BasisSizes, Kk \in BasisSizes, vb \in 1..3, vk \in 1..2 :
          quad = [QR |-> own, rule |-> OtherRule,
                  pacbra |-> Wavepacket(Nb, Kb, 1, vb),
                  packet |-> Wavepacket(Nk, Kk, 1 + (vk % 2), vk),
                  operator |-> op]
    /\ qret = NoQret
    /\ NoStorageInit

NextQuad ==
    \/ \E summed \in BOOLEAN, component \in Components :
          QuadratureCall(summed, component)
    \/ BuildMatrixCall

SpecQuad == InitQuad /\ [][NextQuad]_vars

Nbra == quad.pacbra.N
Nket == quad.packet.N
Kbra == quad.pacbra.K
Kket == quad.packet.K

\* the block of component pair (row, col) in the matrix build_matrix returned
ReturnedBlock(row, col) ==
    [i \in 1..Kbra |-> [j \in 1..Kket |->
        qret.matrix.value.at[row * Kbra + i][col * Kket + j]]]

\* quadrature has returned the full list
ListReturned ==
    /\ qret.scalar.called /\ qret.scalar.exc = "none"
    /\ qret.scalar.value.kind = "list"

MatrixReturned == qret.matrix.called /\ qret.matrix.exc = "none"

\* C13: for the same packets, rule and operator, build_matrix returns a
\* matrix whenever quadrature returns its scalars, and the scalar of every
\* (row, col) is the number conj(coeff_bra[row])^T * B * coeff_ket[col] for
\* the (row, col) block B of that matrix.
C13_ScalarMatchesMatrixBlock ==
    (ListReturned /\ qret.matrix.called) =>
        /\ qret.matrix.exc = "none"
        /\ \A row \in 0..(Nbra - 1), col \in 0..(Nket - 1) :
              LET scalar == qret.scalar.value.list[row * Nket + col + 1]
                  contracted ==
                      DotConjugate(quad.pacbra.coeff[row + 1],
                          DotMatrixVector(ReturnedBlock(row, col),
                                          quad.packet.coeff[col + 1]))
              IN  scalar.fin /\ contracted.fin /\ scalar = contracted

\* C14: with operator=None every block (row, col), row # col, of the matrix
\* build_matrix returns is exactly zero, and so is the scalar of quadrature
\* for that pair; on the diagonal the operator is 1 at every node.
C14_DefaultOperatorIsKroneckerDelta ==
    ~quad.operator.set =>
        /\ MatrixReturned =>
              \A row \in 0..(Nbra - 1), col \in 0..(Nket - 1) :
                  row # col =>
                      \A i \in 1..Kbra, j \in 1..Kket :
                          ReturnedBlock(row, col)[i][j] = Zero
        /\ ListReturned =>
              \A row \in 0..(Nbra - 1), col \in 0..(Nket - 1) :
                  row # col => qret.scalar.value.list[row * Nket + col + 1] = Zero
        /\ quad.QR.set =>
              \A row \in 0..(Nbra - 1) : row < Nket =>
                  \A k \in 1..Len(quad.QR.nodes) :
                      CallWithNodes(None, PairNodes(quad, quad.pacbra, quad.packet,
                                                    row, row), row, row)[k] = One

\* the scalar of component pair (row, col)
ScalarOf(row, col) ==
    PairScalar(quad, quad.pacbra, quad.packet, quad.operator, row, col)

\* C19: quadrature holds the scalar of pair (row, col) at position
\* row*Nket + col of a list of length Nbra*Nket; with a component it returns
\* the scalar at that position, summed or not; else with summed the sum of
\* all of them; else the list.
C19_QuadratureSelectsRowMajor ==
    (qret.scalar.called /\ qret.scalar.exc = "none") =>
        LET full == [n \in 1..(Nbra * Nket) |->
                        ScalarOf((n - 1) \div Nket, (n - 1) % Nket)]
            out == qret.scalar.value
        IN  IF qret.scalar.component.set
              THEN /\ out.kind = "scalar"
                   /\ out.scalar = full[qret.scalar.component.v + 1]
            ELSE IF qret.scalar.summed
              THEN out.kind = "scalar" /\ out.scalar = Sum(full)
            ELSE /\ out.kind = "list"
                 /\ Len(out.list) = Nbra * Nket
                 /\ \A row \in 0..(Nbra - 1), col \in 0..(Nket - 1) :
                       out.list[row * Nket + col + 1] = ScalarOf(row, col)

\* quadrature of a two-component bra and a one-component ket, summed and with
\* component 1, has returned the scalar of pair (1, 0), which is neither the
\* scalar of pair (0, 0) nor the sum
C19_Witness ==
    /\ qret.scalar.called /\ qret.scalar.exc = "none"
    /\ Nbra = 2 /\ Nket = 1
    /\ qret.scalar.summed
    /\ qret.scalar.component = [set |-> TRUE, v |-> 1]
    /\ qret.scalar.value.scalar.fin
    /\ qret.scalar.value.scalar = ScalarOf(1, 0)
    /\ qret.scalar.value.scalar # ScalarOf(0, 0)
    /\ qret.scalar.value.scalar # Add(ScalarOf(0, 0), ScalarOf(1, 0))

\* C20: the matrix build_matrix returns has Nbra*Kbra rows and Nket*Kket
\* columns; every entry lies in the block of exactly one component pair,
\* has been assigned exactly once and holds the entry of phase*M of that
\* pair at its offset in the block.
C20_BlocksTileTheMatrix ==
    MatrixReturned =>
        LET m == qret.matrix.value
        IN  /\ m.rows = Nbra * Kbra
            /\ m.cols = Nket * Kket
            /\ \A i \in 1..m.rows, j \in 1..m.cols :
                  LET row == (i - 1) \div Kbra
                      col == (j - 1) \div Kket
                  IN  /\ m.writes[i][j] = 1
                      /\ Cardinality(
                            {rc \in (0..(Nbra - 1)) \X (0..(Nket - 1)) :
                                /\ rc[1] * Kbra < i /\ i <= (rc[1] + 1) * Kbra
                                /\ rc[2] * Kket < j /\ j <= (rc[2] + 1) * Kket}) = 1
                      /\ m.at[i][j] =
                            PairBlock(quad, quad.pacbra, quad.packet, quad.operator,
                                      row, col)[i - row * Kbra][j - col * Kket]

\* build_matrix has returned a 4 x 2 matrix for a bra of two components and
\* basis size 2 and a ket of two components and basis size 1, with a
\* non-zero entry in its last row
C20_Witness ==
    /\ MatrixReturned
    /\ Nbra = 2 /\ Kbra = 2 /\ Nket = 2 /\ Kket = 1
    /\ qret.matrix.value.rows = 4 /\ qret.matrix.value.cols = 2
    /\ qret.matrix.value.at[4][2].fin
    /\ qret.matrix.value.at[4][2] # Zero

(***************************************************************************)
(* Asking an IOManager for operations it does not define.                   *)
(***************************************************************************)
InitPlugin ==
    /\ disk = [f \in Files |-> NoFile]
    /\ iom = FreshIOManager
    /\ ret = NoCall
    /\ NoLoopInit

NextPlugin ==
    \/ \E key \in Keys : GetAttr(key) /\ UNCHANGED <<LoopVars, QuadVars>>
    \/ \E f \in Files : CreateFile(DefaultConfig(0), f) /\ UNCHANGED <<LoopVars, QuadVars>>
    \/ Finalize /\ UNCHANGED <<LoopVars, QuadVars>>

SpecPlugin == InitPlugin /\ [][NextPlugin]_vars

\* C15: asking for an undefined operation <verb>_<X>... binds the functions
\* of the plugin for X and returns the one asked for; when the name has no X
\* part, the plugin does not exist or the plugin lacks the operation, the
\* outcome is the "not found" error of the plugin loader (ImportError) and
\* no other exception.
C15_ResolutionFailureIsNotFound ==
    ret.op = "__getattr__" =>
        LET key == ret.path
            resolves == \E x \in {"grid", "wavepacket", "norm"} :
                            /\ Len(Split(key)) >= 2 /\ Split(key)[2] = x
                            /\ key \in PluginFunctions(x)
        IN  IF resolves
              THEN ret.exc = "none" /\ key \in iom.dict
              ELSE ret.exc = "ImportError"

(***************************************************************************)
(* A store with time series, used until and after it is closed.             *)
(***************************************************************************)
\* save_coefficients_inhomog / save_parameters_inhomog(value, timestep)
\* called on the IOManager
SaveInhomog(q, value, timestep) ==
    /\ iom' = iom
    /\ LET op == IF q = "coefficients" THEN "save_coefficients_inhomog"
                 ELSE "save_parameters_inhomog"
       IN  IF iom.srf.state = "none"
             THEN /\ disk' = disk
                  /\ ret' = Ret(op, q, timestep, 0, 0, NoResult, "TypeError")
           ELSE IF ~IsOpen
             THEN /\ disk' = disk
                  /\ ret' = Ret(op, q, timestep, 0, 0, NoResult, "ValueError")
           ELSE /\ Srf.ds[TimegridOf(q)].pointer < MaxSlot
                /\ disk' = [disk EXCEPT ![iom.srf.file] =
                               SaveSnapshot(@, q, value, timestep)]
                /\ ret' = Ret(op, q, timestep, 0, 0, NoResult, "none")

\* the store of a prepared run, open
InitClosed ==
    /\ disk = [f \in Files |->
                 IF f = DefaultFile
                   THEN AddSeries(CreatedStore(DefaultConfig(1)), DefaultConfig(1), 1)
                   ELSE NoFile]
    /\ iom = [FreshIOManager EXCEPT !.parameters = <<DefaultConfig(1)>>,
                                    !.srf = OpenHandle(DefaultFile)]
    /\ ret = NoCall
    /\ NoLoopInit

NextClosed ==
    \/ Finalize /\ UNCHANGED <<LoopVars, QuadVars>>
    \/ CreateBlock /\ UNCHANGED <<LoopVars, QuadVars>>
    \/ \E slot \in 0..MaxSlot :
          MustResize("coefficients", slot, 0) /\ UNCHANGED <<LoopVars, QuadVars>>
    \/ \E t \in 0..1 :
          FindTimestepIndex("timegrid_coefficients", t) /\ UNCHANGED <<LoopVars, QuadVars>>
    \/ \E q \in Quantities :
          SaveInhomog(q, 1, 1) /\ UNCHANGED <<LoopVars, QuadVars>>

SpecClosed == InitClosed /\ [][NextClosed]_vars

\* the operations that read or write through the handle of the IOManager
HandleOperations ==
    {"must_resize", "create_block", "find_timestep_index",
     "save_coefficients_inhomog", "save_parameters_inhomog"}

\* C16: finalize closes the handle and leaves the store as it is; from then
\* on every snapshot save, resize, block creation and timestep lookup through
\* the IOManager raises, changes nothing in the persisted store and leaves
\* the handle closed.
C16_ClosedStoreRejectsEverything ==
    /\ [][(ret'.op = "finalize" /\ ret'.exc = "none") =>
             (iom'.srf.state = "closed" /\ disk' = disk)]_vars
    /\ [][(/\ (iom.srf.state = "closed" \/ (ret.op = "finalize" /\ ret.exc = "none"))
           /\ ret'.op \in HandleOperations) =>
             /\ ret'.exc # "none"
             /\ disk' = disk
             /\ iom'.srf.state = "closed"]_vars

\* a snapshot save on the closed store of a run has been rejected, after a
\* save on the open store had been taken
C16_Witness ==
    /\ iom.srf.state = "closed"
    /\ ret.op = "save_parameters_inhomog" /\ ret.exc = "ValueError"
    /\ RunStore.ds["timegrid_coefficients"].pointer = 1
    /\ RunStore.ds["timegrid_parameters"].pointer = 0

(***************************************************************************)
(* The configuration record: create_file, then load_file.                   *)
(***************************************************************************)
\* what a configuration file gives: primary inputs with integer, real and
\* complex values, with and without the inputs of a derived value
ParameterInputs ==
    { [T |-> t, dt |-> d, eps |-> e] : t \in {2, 3}, d \in {1, 2},
                                       e \in {C(1, 0), C(0, -1)} }
      \cup { [eps |-> e, ncomponents |-> n] : e \in {C(1, 0), C(0, -1)},
                                               n \in ComponentCounts }

\* the parameters objects handed to create_file: the inputs with their
\* derived values
ParameterObjects == {ComputeParameters(x) : x \in ParameterInputs}

InitRoundTrip ==
    /\ disk = [f \in Files |-> NoFile]
    /\ iom = FreshIOManager
    /\ ret = NoCall
    /\ NoLoopInit

NextRoundTrip ==
    \/ \E p \in ParameterObjects, f \in Files :
          CreateFile(p, f) /\ UNCHANGED <<LoopVars, QuadVars>>
    \/ \E f \in Files : LoadFile(f) /\ UNCHANGED <<LoopVars, QuadVars>>
    \/ Finalize /\ UNCHANGED <<LoopVars, QuadVars>>

SpecRoundTrip == InitRoundTrip /\ [][NextRoundTrip]_vars

\* the orders in which a set of names can be visited
Orders(names) ==
    { o \in [1..Cardinality(names) -> names] :
        \A i, j \in 1..Cardinality(names) : o[i] = o[j] => i = j }

HasSeries ==
    \A q \in Quantities : {q, TimegridOf(q)} \subseteq DOMAIN RunStore.ds

\* the number of snapshots of quantity q recorded so far
Recorded(q) == RunStore.ds[TimegridOf(q)].pointer

\* C21: whenever no save point is under way (prepare_simulation or an
\* iteration of run_simulation has completed, or a call has returned), the
\* coefficients and the parameters have been recorded for the same timesteps
\* with the same wavepacket states; between the two saves of a save point the
\* coefficients are exactly one snapshot ahead, and the parameters snapshot
\* that follows takes the same timestep and the same wavepacket state, which
\* in run_simulation is the one propagate() of that iteration has left.
C21_SnapshotsComeInPairs ==
    /\ []((HasSeries /\ pc \in {"idle", "run_loop"}) =>
            /\ WrittenTimegrid("coefficients") = WrittenTimegrid("parameters")
            /\ WrittenData("coefficients") = WrittenData("parameters"))
    /\ []((HasSeries /\ pc \in {"prepare_parameters", "run_parameters"}) =>
            /\ WrittenTimegrid("coefficients") =
                  Append(WrittenTimegrid("parameters"),
                         IF pc = "prepare_parameters" THEN 0 ELSE loop.i)
            /\ WrittenData("coefficients") =
                  Append(WrittenData("parameters"), loop.packet))
    /\ []((HasSeries /\ pc \in {"prepare_coefficients", "run_coefficients"}) =>
            Recorded("coefficients") = Recorded("parameters"))
    /\ [][(HasSeries /\ Recorded("parameters")' # Recorded("parameters")) =>
            /\ pc \in {"prepare_parameters", "run_parameters"}
            /\ Recorded("parameters")' = Recorded("coefficients")
            /\ Recorded("coefficients")' = Recorded("coefficients")
            /\ loop'.packet = loop.packet]_vars
    /\ [][(HasSeries /\ Recorded("coefficients")' # Recorded("coefficients")) =>
            /\ pc \in {"prepare_coefficients", "run_coefficients"}
            /\ pc' = IF pc = "prepare_coefficients" THEN "prepare_parameters"
                                                     ELSE "run_parameters"
            /\ Recorded("parameters")' = Recorded("parameters")
            /\ loop' = loop]_vars
    /\ [][pc' = "run_coefficients" =>
            (pc = "run_loop" /\ loop'.packet = loop.packet + 1
             /\ loop'.i = loop.i /\ disk' = disk)]_vars

\* the second iteration of a run has completed with both of its snapshots,
\* after the initial pair and the pair of the first iteration
C21_Witness ==
    /\ InRun /\ pc = "run_loop" /\ loop.i = 3
    /\ WrittenTimegrid("coefficients") = <<0, 1, 2>>
    /\ WrittenTimegrid("parameters") = <<0, 1, 2>>
    /\ WrittenData("coefficients") = <<1, 2, 3>>
    /\ WrittenData("parameters") = <<1, 2, 3>>

====
